---- MODULE Spec2Model ----
(***************************************************************************)
(* Channel multiplexing engine of the SSH client (channel.c) together with *)
(* the packet reader/writer helpers it uses (packet.c).                    *)
(*                                                                         *)
(* The engine is single threaded.  ssh_chan_run_connection is a long       *)
(* synchronous call; it is cut into steps at the places where it takes an  *)
(* input from outside: the registration of one configuration, poll(), the  *)
(* receipt of one inbound packet, the flush of the output, and the         *)
(* dispatch of one ready poll entry.  Host callbacks run inside the step   *)
(* that invokes them; what the host does in a callback (watch_fd, close,   *)
(* the value it returns) is an input of the step.                          *)
(***************************************************************************)
EXTENDS Integers, Sequences, FiniteSets, TLC

(* ------------------------------------------------------------------ *)
(* Bounds of the model                                                 *)
(* ------------------------------------------------------------------ *)
MaxConfigs == 2   \* channel configurations handed to one call of run
MaxTable   == 3   \* channels the connection's table holds in the model
MaxData    == 1   \* payload bytes of an inbound CHANNEL_DATA
MaxRuns    == 2   \* calls of ssh_chan_run_connection on the connection
MaxPackets == 2   \* inbound packets the peer sends on the connection
MaxLog     == 64  \* bytes of a byte string that the step's log keeps
MaxRead    == 5   \* bytes of the input a reader is made on
MaxItems   == 2   \* values written to a buffer before they are read back
MaxBytes   == 2   \* bytes of a byte string written to a buffer

(* ------------------------------------------------------------------ *)
(* Program constants                                                   *)
(* ------------------------------------------------------------------ *)
MAX_POLL_FDS == 8
BUFFER_GROW_SIZE == 256
(* the largest size_t: the machine word is modelled with 31 bits, the    *)
(* widest the model checker's integers allow; a uint32_t that is read     *)
(* stays within it                                                        *)
SIZE_MAX == 2147483647
LOCAL_MAX_PACKET_SIZE == 65536
LOCAL_WINDOW_SIZE == 262144

SSH_MSG_GLOBAL_REQUEST            == 80
SSH_MSG_REQUEST_FAILURE           == 82
SSH_MSG_CHANNEL_OPEN              == 90
SSH_MSG_CHANNEL_OPEN_CONFIRMATION == 91
SSH_MSG_CHANNEL_OPEN_FAILURE      == 92
SSH_MSG_CHANNEL_WINDOW_ADJUST     == 93
SSH_MSG_CHANNEL_DATA              == 94
SSH_MSG_CHANNEL_EOF               == 96
SSH_MSG_CHANNEL_CLOSE             == 97
SSH_MSG_CHANNEL_REQUEST           == 98
SSH_MSG_CHANNEL_SUCCESS           == 99

(* the transport socket and the descriptor the host attaches *)
Sock == "sock"
Fds  == {"fd0"}

VARIABLES
  pc,        \* where ssh_chan_run_connection stands
  channels,  \* conn->channels[0 .. conn->num_channels-1]
  todo,      \* configurations still to register in the running call
  ret,       \* value returned by the last call that returned
  entered,   \* the running/last call reached chan_loop
  poll_fds,  \* chan_loop's poll_fds[] with the revents of the last poll
  nidx,      \* chan_loop's index i of the dispatch loop (C index)
  pending,   \* ssh_conn_send_is_pending(conn)
  runs,      \* calls of ssh_chan_run_connection so far
  npackets,  \* inbound packets received so far
  ev,        \* what the last step did: callbacks, close() calls, packets sent
  wbuf,      \* a struct SSH_BUFFER the packet helpers are applied to
  reader,    \* a struct SSH_BUF_READER the packet helpers are applied to
  written    \* the values put into wbuf and not read back yet; in BufferSpec
             \* the calls made that change the bytes of wbuf

vars == <<pc, channels, todo, ret, entered, poll_fds, nidx, pending, runs,
          npackets, ev, wbuf, reader, written>>

(* the buffer and the reader the packet helpers are exercised on; the     *)
(* channel engine keeps its packets inside the transport                  *)
helpers == <<wbuf, reader, written>>

(* ------------------------------------------------------------------ *)
(* Bytes, strings                                                      *)
(* ------------------------------------------------------------------ *)
CStr_session == <<115, 101, 115, 115, 105, 111, 110>>
CStr_pty_req == <<112, 116, 121, 45, 114, 101, 113>>
CStr_shell   == <<115, 104, 101, 108, 108>>
CStr_xterm   == <<120, 116, 101, 114, 109>>

(* ------------------------------------------------------------------ *)
(* packet.c: writers.  A buffer is the sequence of its len bytes.      *)
(* ------------------------------------------------------------------ *)
ssh_buf_write_u8(buf, val) == Append(buf, val % 256)

(* ssh_buf_write_u32 that stores the low byte first *)
ssh_buf_write_u32_low_first(buf, val) ==
  buf \o << val % 256, (val \div 256) % 256, (val \div 65536) % 256,
            (val \div 16777216) % 256 >>

ssh_buf_write_u32(buf, val) ==
  buf \o << (val \div 16777216) % 256, (val \div 65536) % 256,
            (val \div 256) % 256, val % 256 >>

ssh_buf_write_data(buf, val) == ssh_buf_write_u32(buf, Len(val)) \o val

ssh_buf_write_cstring(buf, val) == ssh_buf_write_data(buf, val)

(* ------------------------------------------------------------------ *)
(* packet.c: reader.  A reader is [data, pos, len], pos a C offset.    *)
(* Each read returns [ok, val, rd].                                    *)
(* ------------------------------------------------------------------ *)
ssh_buf_reader_new(data) == [data |-> data, pos |-> 0, len |-> Len(data)]

(* a + b as the machine computes it in size_t *)
size_add(a, b) ==
  IF b > SIZE_MAX - a THEN a - (SIZE_MAX - b) - 1 ELSE a + b

(* checked_add that takes the wrapped sum for the result *)
checked_add_wrapping(a, b) == [ret |-> 0, val |-> size_add(a, b)]

(* returns [ret, val] *)
checked_add(a, b) ==
  IF size_add(a, b) < a THEN [ret |-> -1, val |-> 0]
  ELSE [ret |-> 0, val |-> size_add(a, b)]

(* TRUE when the advance is allowed (the C function returns 0) *)
check_advance(pos, adv, len) ==
  LET new_pos == checked_add(pos, adv)
  IN new_pos.ret = 0 /\ new_pos.val <= len

ssh_buf_read_u8(rd) ==
  IF ~check_advance(rd.pos, 1, rd.len)
  THEN [ok |-> FALSE, val |-> 0, rd |-> rd]
  ELSE [ok |-> TRUE, val |-> rd.data[rd.pos + 1],
        rd |-> [rd EXCEPT !.pos = size_add(@, 1)]]

ssh_buf_read_u32(rd) ==
  IF ~check_advance(rd.pos, 4, rd.len)
  THEN [ok |-> FALSE, val |-> 0, rd |-> rd]
  ELSE [ok |-> TRUE,
        val |-> rd.data[rd.pos + 1] * 16777216 + rd.data[rd.pos + 2] * 65536
                + rd.data[rd.pos + 3] * 256 + rd.data[rd.pos + 4],
        rd |-> [rd EXCEPT !.pos = size_add(@, 4)]]

ssh_buf_read_string(rd) ==
  LET l == ssh_buf_read_u32(rd) IN
  IF ~l.ok THEN [ok |-> FALSE, val |-> <<>>, rd |-> rd]
  ELSE IF ~check_advance(l.rd.pos, l.val, l.rd.len)
  THEN [ok |-> FALSE, val |-> <<>>, rd |-> l.rd]
  ELSE [ok |-> TRUE,
        val |-> SubSeq(l.rd.data, l.rd.pos + 1, size_add(l.rd.pos, l.val)),
        rd |-> [l.rd EXCEPT !.pos = size_add(@, l.val)]]

ssh_buf_read_skip(rd, n) ==
  IF ~check_advance(rd.pos, n, rd.len)
  THEN [ok |-> FALSE, val |-> 0, rd |-> rd]
  ELSE [ok |-> TRUE, val |-> 0, rd |-> [rd EXCEPT !.pos = size_add(@, n)]]

ssh_buf_reader_rewind(rd) == [rd EXCEPT !.pos = 0]

ssh_buf_reader_seek(rd, new_pos) ==
  IF new_pos > rd.len THEN [ok |-> FALSE, val |-> 0, rd |-> rd]
  ELSE [ok |-> TRUE, val |-> 0, rd |-> [rd EXCEPT !.pos = new_pos]]

(* the position where the while loop of ssh_buf_read_until stops *)
RECURSIVE read_until_scan(_, _)
read_until_scan(rd, sentinel) ==
  IF rd.pos < rd.len /\ rd.data[rd.pos + 1] # sentinel
  THEN read_until_scan([rd EXCEPT !.pos = size_add(@, 1)], sentinel)
  ELSE rd

ssh_buf_read_until(rd, sentinel) ==
  LET s == read_until_scan(rd, sentinel)
  IN [ok |-> TRUE,
      val |-> SubSeq(rd.data, rd.pos + 1, s.pos),
      rd |-> IF s.pos < s.len THEN [s EXCEPT !.pos = size_add(@, 1)] ELSE s]

(* ------------------------------------------------------------------ *)
(* packet.c: struct SSH_BUFFER.  data holds the len bytes written, cap  *)
(* is the allocated size.  Operations return [ret, buf]; alloc_ok says  *)
(* whether ssh_realloc, if it is called, succeeds.                      *)
(* ------------------------------------------------------------------ *)
ssh_buf_new == [data |-> <<>>, len |-> 0, cap |-> 0]

ssh_buf_new_from_data(data) == [data |-> data, len |-> Len(data), cap |-> Len(data)]

(* ssh_buf_grow whose size computations are not checked *)
ssh_buf_grow_wrapping(buf, add_len, alloc_ok) ==
  LET new_cap == size_add(buf.len, add_len)
      rounded == size_add(new_cap, BUFFER_GROW_SIZE + 1)
  IN IF buf.cap >= new_cap THEN [ret |-> 0, buf |-> buf]
     ELSE IF ~alloc_ok THEN [ret |-> -1, buf |-> buf]
     ELSE [ret |-> 0,
           buf |-> [buf EXCEPT !.cap =
                      (rounded \div BUFFER_GROW_SIZE) * BUFFER_GROW_SIZE]]

ssh_buf_grow(buf, add_len, alloc_ok) ==
  LET new_cap == checked_add(buf.len, add_len)
      rounded == checked_add(new_cap.val, BUFFER_GROW_SIZE + 1)
  IN IF new_cap.ret < 0 THEN [ret |-> -1, buf |-> buf]
     ELSE IF buf.cap >= new_cap.val THEN [ret |-> 0, buf |-> buf]
     ELSE IF rounded.ret < 0 THEN [ret |-> -1, buf |-> buf]
     ELSE IF ~alloc_ok THEN [ret |-> -1, buf |-> buf]
     ELSE [ret |-> 0,
           buf |-> [buf EXCEPT !.cap =
                      (rounded.val \div BUFFER_GROW_SIZE) * BUFFER_GROW_SIZE]]

ssh_buf_ensure_size(buf, new_len, alloc_ok) ==
  IF buf.cap >= new_len THEN [ret |-> 0, buf |-> buf]
  ELSE ssh_buf_grow(buf, new_len - buf.len, alloc_ok)

ssh_buf_clear(buf) == [buf EXCEPT !.data = <<>>, !.len = 0]

(* ssh_buf_get_write_pointer(buf, len) and the caller's memcpy of the   *)
(* len bytes val to the pointer it returns                              *)
ssh_buf_get_write_pointer(buf, val, alloc_ok) ==
  LET g == ssh_buf_grow(buf, Len(val), alloc_ok)
  IN IF g.ret < 0 THEN [ret |-> -1, buf |-> g.buf]
     ELSE [ret |-> 0,
           buf |-> [g.buf EXCEPT !.data = @ \o val,
                                 !.len = size_add(@, Len(val))]]

(* the writers on the struct: ssh_buf_grow, then the bytes *)
ssh_buf_write_u8_grow(buf, val, alloc_ok) ==
  LET g == ssh_buf_grow(buf, 1, alloc_ok)
  IN IF g.ret < 0 THEN [ret |-> -1, buf |-> g.buf]
     ELSE [ret |-> 0,
           buf |-> [g.buf EXCEPT !.data = ssh_buf_write_u8(@, val),
                                 !.len = size_add(@, 1)]]

ssh_buf_write_u32_grow(buf, val, alloc_ok) ==
  LET g == ssh_buf_grow(buf, 4, alloc_ok)
  IN IF g.ret < 0 THEN [ret |-> -1, buf |-> g.buf]
     ELSE [ret |-> 0,
           buf |-> [g.buf EXCEPT !.data = ssh_buf_write_u32(@, val),
                                 !.len = size_add(@, 4)]]

(* alloc_ok is for the length prefix, alloc_ok2 for the payload *)
ssh_buf_write_data_grow(buf, val, alloc_ok, alloc_ok2) ==
  LET w == ssh_buf_write_u32_grow(buf, Len(val), alloc_ok)
      p == ssh_buf_get_write_pointer(w.buf, val, alloc_ok2)
  IN IF w.ret < 0 THEN [ret |-> -1, buf |-> w.buf]
     ELSE IF p.ret < 0 THEN [ret |-> -1, buf |-> p.buf]
     ELSE [ret |-> 0, buf |-> p.buf]

ssh_buf_write_cstring_grow(buf, val, alloc_ok, alloc_ok2) ==
  ssh_buf_write_data_grow(buf, val, alloc_ok, alloc_ok2)

ssh_buf_append_data(buf, data, alloc_ok) ==
  ssh_buf_get_write_pointer(buf, data, alloc_ok)

ssh_buf_remove_data(buf, offset, len) ==
  LET end == checked_add(offset, len)
  IN IF end.ret < 0 \/ buf.len < end.val THEN [ret |-> -1, buf |-> buf]
     ELSE [ret |-> 0,
           buf |-> [buf EXCEPT !.data = SubSeq(@, 1, offset)
                                          \o SubSeq(@, end.val + 1, buf.len),
                               !.len = @ - len]]

ssh_buf_reader_new_from_buffer(buf) ==
  [data |-> buf.data, pos |-> 0, len |-> buf.len]

(* first byte of a received packet *)
ssh_packet_get_type(pack) == IF pack.len > 0 THEN pack.data[1] ELSE 0

(* ------------------------------------------------------------------ *)
(* channel.c: flag translation and watch sets                          *)
(* ------------------------------------------------------------------ *)
chan_flags_to_pollfd_events(chan_fd_flags) ==
  (IF chan_fd_flags \cap {"READ", "CLOSE"} # {} THEN {"POLLIN", "POLLHUP"} ELSE {})
  \cup (IF "WRITE" \in chan_fd_flags THEN {"POLLOUT"} ELSE {})

pollfd_events_to_chan_flags(pollfd_events) ==
  (IF pollfd_events \cap {"POLLIN", "POLLPRI"} # {} THEN {"READ"} ELSE {})
  \cup (IF "POLLHUP" \in pollfd_events THEN {"CLOSE"} ELSE {})
  \cup (IF pollfd_events \cap {"POLLOUT", "POLLWRBAND"} # {} THEN {"WRITE"} ELSE {})

(* returns [ret, fds]; an entry is [fd, events, revents] *)
update_poll_fd_events(fds, fd, add_events, remove_events) ==
  IF \E i \in 1..Len(fds) : fds[i].fd = fd
  THEN LET i == CHOOSE k \in 1..Len(fds) :
                  fds[k].fd = fd /\ \A m \in 1..(k-1) : fds[m].fd # fd
       IN [ret |-> 0,
           fds |-> [fds EXCEPT ![i].events = (@ \cup add_events) \ remove_events]]
  ELSE IF Len(fds) < MAX_POLL_FDS
  THEN [ret |-> 0,
        fds |-> Append(fds, [fd |-> fd, events |-> add_events \ remove_events,
                             revents |-> {}])]
  ELSE [ret |-> -1, fds |-> fds]

(* ssh_chan_watch_fd that reports every failed update, also one that    *)
(* had nothing to add                                                  *)
ssh_chan_watch_fd_strict(chan, fd, enable_fd_flags, disable_fd_flags) ==
  LET enable_events  == chan_flags_to_pollfd_events(enable_fd_flags)
      disable_events == chan_flags_to_pollfd_events(disable_fd_flags)
      u == update_poll_fd_events(chan.watch_fds, fd, enable_events, disable_events)
  IN IF u.ret < 0
     THEN [ret |-> -1, chan |-> chan]
     ELSE [ret |-> 0,
           chan |-> [chan EXCEPT !.watch_fds =
                        SelectSeq(u.fds, LAMBDA e : e.events # {})]]

(* returns [ret, chan] *)
ssh_chan_watch_fd(chan, fd, enable_fd_flags, disable_fd_flags) ==
  LET enable_events  == chan_flags_to_pollfd_events(enable_fd_flags)
      disable_events == chan_flags_to_pollfd_events(disable_fd_flags)
      u == update_poll_fd_events(chan.watch_fds, fd, enable_events, disable_events)
  IN IF u.ret < 0 /\ enable_events # {}
     THEN [ret |-> -1, chan |-> chan]
     ELSE [ret |-> 0,
           chan |-> [chan EXCEPT !.watch_fds =
                        SelectSeq(u.fds, LAMBDA e : e.events # {})]]

(* ------------------------------------------------------------------ *)
(* channel.c: channels                                                 *)
(* ------------------------------------------------------------------ *)
(* the scan of chan_new: i is the C index, reset to 0 and then          *)
(* incremented by the for statement                                    *)
RECURSIVE chan_new_scan(_, _, _)
chan_new_scan(chs, i, local_num) ==
  IF i >= Len(chs) THEN local_num
  ELSE IF chs[i + 1].local_num = local_num
       THEN chan_new_scan(chs, 0 + 1, local_num + 1)
       ELSE chan_new_scan(chs, i + 1, local_num)

(* the channel chan_new appends; the last five fields record the        *)
(* channel's history for the properties below                          *)
chan_new(chs) ==
  [ status |-> "REQUESTED",
    watch_fds |-> <<>>,
    local_num |-> chan_new_scan(chs, 0, 0),
    remote_num |-> 0,
    local_max_packet_size |-> LOCAL_MAX_PACKET_SIZE,
    local_window_size |-> LOCAL_WINDOW_SIZE,
    remote_max_packet_size |-> 0,
    remote_window_size |-> 0,
    type |-> "SESSION",
    confirmed |-> FALSE,    \* a CHANNEL_OPEN_CONFIRMATION was processed
    opened |-> FALSE,       \* notify_open was invoked
    failed |-> FALSE,       \* notify_open_failed was invoked
    closed |-> FALSE,       \* notify_closed was invoked
    hostClosed |-> FALSE ]  \* the host called close() while it was OPEN

(* index in the table of the first channel with that number, 0 if none *)
chan_get_by_num(chs, local_num) ==
  IF \E i \in 1..Len(chs) : chs[i].local_num = local_num
  THEN CHOOSE i \in 1..Len(chs) :
         chs[i].local_num = local_num
         /\ \A m \in 1..(i-1) : chs[m].local_num # local_num
  ELSE 0

chan_remove_closed_channels(chs) == SelectSeq(chs, LAMBDA c : c.status # "CLOSED")

(* ------------------------------------------------------------------ *)
(* The engine's state while a step runs: S = [chs, ev, pending]        *)
(* ------------------------------------------------------------------ *)
(* an event of the step's log; of a long byte string the log keeps the  *)
(* first MaxLog bytes                                                  *)
Event(op, i, ch, arg) ==
  [ op |-> op, idx |-> i, num |-> ch.local_num, st |-> ch.status,
    opened |-> ch.opened, failed |-> ch.failed,
    closed |-> ch.closed, hclosed |-> ch.hostClosed,
    arg |-> IF Len(arg) > MaxLog THEN SubSeq(arg, 1, MaxLog) ELSE arg ]

NoChan == [ local_num |-> 0, status |-> "-", opened |-> FALSE, failed |-> FALSE,
            closed |-> FALSE, hostClosed |-> FALSE ]

Emit(S, e) == [S EXCEPT !.ev = Append(@, e)]

(* what the step got from poll or from the transport *)
Input(S, op, arg) == Emit(S, Event(op, 0, NoChan, arg))

(* ssh_conn_new_packet ... ssh_conn_send_packet of one packet *)
SendPacket(S, bytes) ==
  [Emit(S, Event("send", 0, NoChan, bytes)) EXCEPT !.pending = TRUE]

(* op is "host_close" or "engine_close": who called ssh_chan_close *)
ssh_chan_close(S, i, op) ==
  LET S1 == Emit(S, Event(op, i, S.chs[i], <<>>)) IN
  IF S.chs[i].status = "OPEN"
  THEN [Emit(S1, Event("closed", i, S.chs[i], <<>>))
          EXCEPT !.chs[i].closed = TRUE, !.chs[i].status = "CLOSED"]
  ELSE S1

RECURSIVE chan_close_each(_, _)
chan_close_each(S, i) ==
  IF i > Len(S.chs) THEN S
  ELSE chan_close_each(ssh_chan_close(S, i, "engine_close"), i + 1)

chan_close_all_channels(S) ==
  LET S1 == chan_close_each(S, 1)
  IN [S1 EXCEPT !.chs = chan_remove_closed_channels(@)]

(* ------------------------------------------------------------------ *)
(* The host: what a callback does before it returns                    *)
(* ------------------------------------------------------------------ *)
NoWatch == <<>>

WatchArgs == { <<{"READ"}, {}>>, <<{}, {"READ"}>> }

WatchOps == { [fd |-> f, enable |-> a[1], disable |-> a[2]] :
                f \in Fds, a \in WatchArgs }

(* watch: the ssh_chan_watch_fd calls it makes, in order; close: whether *)
(* it calls ssh_chan_close on its channel; ret: the value it returns     *)
HostBehaviours ==
  [watch : {NoWatch} \cup { <<w>> : w \in WatchOps }, close : BOOLEAN, ret : {0, -1}]

(* a host that watches two fds and makes up to two calls in a callback *)
Fds2 == {"fd0", "fd1"}

WatchArgs2 == { <<{"WRITE"}, {}>>, <<{}, {"WRITE"}>> }

WatchOps2 == { [fd |-> f, enable |-> a[1], disable |-> a[2]] :
                 f \in Fds2, a \in WatchArgs2 }

HostBehaviours2 ==
  [watch : {NoWatch} \cup { <<w>> : w \in WatchOps2 }
                     \cup { <<v, w>> : v \in WatchOps2, w \in WatchOps2 },
   close : {FALSE}, ret : {0}]

Quiet == [watch |-> NoWatch, close |-> FALSE, ret |-> 0]

RECURSIVE HostWatches(_, _, _)
HostWatches(chan, ops, k) ==
  IF k > Len(ops) THEN chan
  ELSE HostWatches(ssh_chan_watch_fd(chan, ops[k].fd, ops[k].enable,
                                     ops[k].disable).chan,
                   ops, k + 1)

HostActs(S, i, hb) ==
  LET S1 == [S EXCEPT !.chs[i] = HostWatches(@, hb.watch, 1)]
  IN IF hb.close
     THEN [ssh_chan_close(S1, i, "host_close")
             EXCEPT !.chs[i].hostClosed = @ \/ S1.chs[i].status = "OPEN"]
     ELSE S1

(* the callbacks that return int *)
FallibleOps == {"open", "fd_ready"}

(* the engine invokes callback op of channel i; the host acts inside it. *)
(* The event carries the channel's status and history before the call;  *)
(* a callback that returns int is followed by a "return" event with the *)
(* value.                                                               *)
Callback(S, i, op, arg, hb) ==
  LET S1 == Emit(S, Event(op, i, S.chs[i], arg))
      S2 == CASE op = "open"        -> [S1 EXCEPT !.chs[i].opened = TRUE]
              [] op = "open_failed" -> [S1 EXCEPT !.chs[i].failed = TRUE]
              [] OTHER              -> S1
      S3 == HostActs(S2, i, hb)
  IN IF op \in FallibleOps
     THEN Emit(S3, Event("return", i, S3.chs[i], <<hb.ret>>))
     ELSE S3

(* ------------------------------------------------------------------ *)
(* channel.c: inbound packets.  Handlers return [ret, S].              *)
(* sf names the packet of the handler whose sending fails (0: none).   *)
(* ------------------------------------------------------------------ *)
(* chan_handle_global_request that answers whether or not the peer asked *)
chan_handle_global_request_always(S, pack, sf) ==
  LET k == ssh_buf_read_skip(pack, 1)
      n == ssh_buf_read_string(k.rd)
      w == ssh_buf_read_u8(n.rd)
  IN IF ~k.ok \/ ~n.ok \/ ~w.ok THEN [ret |-> -1, S |-> S]
     ELSE IF sf = 1 THEN [ret |-> -1, S |-> S]
     ELSE [ret |-> 0,
           S |-> SendPacket(S, ssh_buf_write_u8(<<>>, SSH_MSG_REQUEST_FAILURE))]

chan_handle_global_request(S, pack, sf) ==
  LET k == ssh_buf_read_skip(pack, 1)
      n == ssh_buf_read_string(k.rd)
      w == ssh_buf_read_u8(n.rd)
  IN IF ~k.ok \/ ~n.ok \/ ~w.ok THEN [ret |-> -1, S |-> S]
     ELSE IF w.val # 0
     THEN IF sf = 1 THEN [ret |-> -1, S |-> S]
          ELSE [ret |-> 0,
                S |-> SendPacket(S, ssh_buf_write_u8(<<>>, SSH_MSG_REQUEST_FAILURE))]
     ELSE [ret |-> 0, S |-> S]

chan_send_channel_open(S, chan, sf) ==
  IF sf = 1 THEN [ret |-> -1, S |-> S]
  ELSE [ret |-> 0,
        S |-> SendPacket(S,
                ssh_buf_write_u32(
                  ssh_buf_write_u32(
                    ssh_buf_write_u32(
                      ssh_buf_write_cstring(
                        ssh_buf_write_u8(<<>>, SSH_MSG_CHANNEL_OPEN),
                        CStr_session),
                      chan.local_num),
                    chan.local_window_size),
                  chan.local_max_packet_size))]

PtyReqPacket(chan) ==
  ssh_buf_write_cstring(
    ssh_buf_write_u32(
      ssh_buf_write_u32(
        ssh_buf_write_u32(
          ssh_buf_write_u32(
            ssh_buf_write_cstring(
              ssh_buf_write_u8(
                ssh_buf_write_cstring(
                  ssh_buf_write_u32(
                    ssh_buf_write_u8(<<>>, SSH_MSG_CHANNEL_REQUEST),
                    chan.remote_num),
                  CStr_pty_req),
                0),
              CStr_xterm),
            80),
          24),
        0),
      0),
    <<>>)

(* the shell request sent without asking for the reply *)
ShellPacket_no_reply(chan) ==
  ssh_buf_write_u8(
    ssh_buf_write_cstring(
      ssh_buf_write_u32(
        ssh_buf_write_u8(<<>>, SSH_MSG_CHANNEL_REQUEST),
        chan.remote_num),
      CStr_shell),
    0)

ShellPacket(chan) ==
  ssh_buf_write_u8(
    ssh_buf_write_cstring(
      ssh_buf_write_u32(
        ssh_buf_write_u8(<<>>, SSH_MSG_CHANNEL_REQUEST),
        chan.remote_num),
      CStr_shell),
    1)

(* case SSH_MSG_CHANNEL_OPEN_CONFIRMATION: the fields are read straight *)
(* into the channel, so a truncated packet leaves the ones read so far  *)
chan_open_confirmation(S, i, rd, sf) ==
  LET r1 == ssh_buf_read_u32(rd)
      r2 == ssh_buf_read_u32(r1.rd)
      r3 == ssh_buf_read_u32(r2.rd)
      S1 == IF r1.ok THEN [S EXCEPT !.chs[i].remote_num = r1.val] ELSE S
      S2 == IF r1.ok /\ r2.ok
            THEN [S1 EXCEPT !.chs[i].remote_window_size = r2.val] ELSE S1
      S3 == IF r1.ok /\ r2.ok /\ r3.ok
            THEN [S2 EXCEPT !.chs[i].remote_max_packet_size = r3.val,
                            !.chs[i].confirmed = TRUE]
            ELSE S2
  IN IF ~(r1.ok /\ r2.ok /\ r3.ok) THEN [ret |-> -1, S |-> S3]
     ELSE IF S3.chs[i].type = "SESSION"
     THEN IF sf = 1 THEN [ret |-> -1, S |-> S3]
          ELSE LET S4 == SendPacket(S3, PtyReqPacket(S3.chs[i]))
               IN IF sf = 2 THEN [ret |-> -1, S |-> S4]
                  ELSE [ret |-> 0, S |-> SendPacket(S4, ShellPacket(S4.chs[i]))]
     ELSE [ret |-> 0, S |-> S3]

chan_process_channel_packet(S, pack, hb, sf) ==
  LET t == ssh_buf_read_u8(pack)
      n == ssh_buf_read_u32(t.rd)
      i == chan_get_by_num(S.chs, n.val)
  IN IF ~t.ok \/ ~n.ok \/ i = 0 THEN [ret |-> -1, S |-> S]
     ELSE CASE t.val = SSH_MSG_CHANNEL_OPEN_CONFIRMATION ->
                 chan_open_confirmation(S, i, n.rd, sf)
            [] t.val = SSH_MSG_CHANNEL_OPEN_FAILURE ->
                 [ret |-> 0,
                  S |-> Callback(S, i, "open_failed", <<>>, hb)]
            [] t.val = SSH_MSG_CHANNEL_SUCCESS ->
                 LET S1 == [S EXCEPT !.chs[i].status = "OPEN"]
                     S2 == Callback(S1, i, "open", <<>>, hb)
                 IN [ret |-> 0,
                     S |-> IF hb.ret < 0 THEN ssh_chan_close(S2, i, "engine_close")
                           ELSE S2]
            [] t.val = SSH_MSG_CHANNEL_DATA ->
                 LET d == ssh_buf_read_string(n.rd)
                 IN IF ~d.ok THEN [ret |-> -1, S |-> S]
                    ELSE [ret |-> 0, S |-> Callback(S, i, "received", d.val, hb)]
            [] OTHER -> [ret |-> 0, S |-> S]

(* the body of the loop of chan_process_packets for one received packet *)
chan_process_packet(S, pack, hb, sf) ==
  LET type == ssh_packet_get_type(pack)
  IN CASE type = SSH_MSG_GLOBAL_REQUEST -> chan_handle_global_request(S, pack, sf)
       [] type \in { SSH_MSG_CHANNEL_OPEN_CONFIRMATION, SSH_MSG_CHANNEL_OPEN_FAILURE,
                     SSH_MSG_CHANNEL_SUCCESS, SSH_MSG_CHANNEL_WINDOW_ADJUST,
                     SSH_MSG_CHANNEL_DATA } ->
            chan_process_channel_packet(S, pack, hb, sf)
       [] OTHER -> [ret |-> 0, S |-> S]

(* dispatch of one signalled poll entry to the channels that watch it; *)
(* hbs[i] is what the host does in channel i's fd_ready                *)
RECURSIVE chan_notify_scan(_, _, _, _, _)
chan_notify_scan(S, poll_fd, i, j, hbs) ==
  IF i > Len(S.chs) THEN S
  ELSE IF j > Len(S.chs[i].watch_fds)
       THEN chan_notify_scan(S, poll_fd, i + 1, 1, hbs)
       ELSE IF poll_fd.revents # {} /\ poll_fd.fd = S.chs[i].watch_fds[j].fd
            THEN chan_notify_scan(
                   Callback(S, i, "fd_ready",
                            <<poll_fd.fd, pollfd_events_to_chan_flags(poll_fd.revents)>>,
                            hbs[i]),
                   poll_fd, i, j + 1, hbs)
            ELSE chan_notify_scan(S, poll_fd, i, j + 1, hbs)

chan_notify_channels_watch_fds(S, poll_fd, hbs) ==
  chan_notify_scan(S, poll_fd, 1, 1, hbs)

(* the poll set chan_loop builds: entry 0 is the socket *)
RECURSIVE chan_loop_merge(_, _, _, _)
chan_loop_merge(fds, chs, i, j) ==
  IF i > Len(chs) THEN fds
  ELSE IF j > Len(chs[i].watch_fds) THEN chan_loop_merge(fds, chs, i + 1, 1)
       ELSE chan_loop_merge(
              update_poll_fd_events(fds, chs[i].watch_fds[j].fd,
                                    chs[i].watch_fds[j].events, {}).fds,
              chs, i, j + 1)

chan_loop_poll_fds(chs, send_is_pending) ==
  chan_loop_merge(
    << [fd |-> Sock,
        events |-> {"POLLIN"} \cup (IF send_is_pending THEN {"POLLOUT"} ELSE {}),
        revents |-> {}] >>,
    chs, 1, 1)

(* ------------------------------------------------------------------ *)
(* Inputs                                                              *)
(* ------------------------------------------------------------------ *)
PeerNums == 0 .. (MaxTable - 1)

Payloads == UNION { [1..n -> {104}] : n \in 0..MaxData }

U32(v) == ssh_buf_write_u32(<<>>, v)

WellFormedPackets ==
  { <<SSH_MSG_CHANNEL_OPEN_CONFIRMATION>> \o U32(n) \o U32(7) \o U32(131072)
      \o U32(32768) : n \in PeerNums }
  \cup { <<SSH_MSG_CHANNEL_OPEN_FAILURE>> \o U32(n) \o U32(2)
           \o ssh_buf_write_data(<<>>, <<97>>) \o ssh_buf_write_data(<<>>, <<>>) :
           n \in PeerNums }
  \cup { <<SSH_MSG_CHANNEL_SUCCESS>> \o U32(n) : n \in PeerNums }
  \cup { <<SSH_MSG_CHANNEL_WINDOW_ADJUST>> \o U32(n) \o U32(1) : n \in PeerNums }
  \cup { <<SSH_MSG_CHANNEL_DATA>> \o U32(n) \o ssh_buf_write_data(<<>>, d) :
           n \in PeerNums, d \in Payloads }
  \cup { <<SSH_MSG_CHANNEL_EOF>> \o U32(n) : n \in PeerNums }
  \cup { <<SSH_MSG_CHANNEL_CLOSE>> \o U32(n) : n \in PeerNums }
  \cup { <<SSH_MSG_GLOBAL_REQUEST>> \o ssh_buf_write_data(<<>>, <<107>>) \o <<w>> :
           w \in {0, 1, 255} }

(* a packet cut short, and a CHANNEL_DATA whose inner length exceeds it *)
MalformedPackets ==
  { SubSeq(p, 1, Len(p) - 1) : p \in WellFormedPackets }
  \cup { <<SSH_MSG_CHANNEL_DATA>> \o U32(n) \o U32(MaxData + 1) \o <<104>> :
           n \in PeerNums }

InPackets == WellFormedPackets \cup MalformedPackets

(* the inputs a packet's handler reads: the others are fixed *)
HostBehavioursFor(p, H) ==
  CASE p[1] = SSH_MSG_CHANNEL_SUCCESS -> H
    [] p[1] \in {SSH_MSG_CHANNEL_OPEN_FAILURE, SSH_MSG_CHANNEL_DATA} ->
         { hb \in H : hb.ret = 0 }
    [] OTHER -> {Quiet}

SendFailuresFor(p) ==
  CASE p[1] = SSH_MSG_CHANNEL_OPEN_CONFIRMATION -> 0..2
    [] p[1] = SSH_MSG_GLOBAL_REQUEST -> 0..1
    [] OTHER -> {0}

(* ------------------------------------------------------------------ *)
(* The state machine                                                   *)
(* ------------------------------------------------------------------ *)
Engine == [chs |-> channels, ev |-> <<>>, pending |-> pending]

Init ==
  /\ pc = "idle"
  /\ channels = <<>>
  /\ todo = 0
  /\ ret = 0
  /\ entered = FALSE
  /\ poll_fds = <<>>
  /\ nidx = 0
  /\ pending = FALSE
  /\ runs = 0
  /\ npackets = 0
  /\ ev = <<>>
  /\ wbuf = ssh_buf_new
  /\ reader = ssh_buf_reader_new(<<>>)
  /\ written = <<>>

(* run returns r; on the paths after chan_loop the channels are closed  *)
(* and swept first (chan_close_all_channels)                           *)
Return(S, r) ==
  /\ pc' = "returned"
  /\ ret' = r
  /\ channels' = S.chs
  /\ pending' = S.pending
  /\ ev' = S.ev
  /\ todo' = 0
  /\ poll_fds' = <<>>
  /\ nidx' = 0

ReturnAfterLoop(S, r) == Return(chan_close_all_channels(S), r)

(* the step goes on at position p inside the call *)
Goto(S, p) ==
  /\ pc' = p
  /\ channels' = S.chs
  /\ pending' = S.pending
  /\ ev' = S.ev
  /\ UNCHANGED <<ret, entered>>

(* ssh_chan_run_connection is called with n configurations *)
RunStart(n, sock_ok) ==
  /\ pc \in {"idle", "returned"}
  /\ UNCHANGED helpers
  /\ Len(channels) + n <= MaxTable
  /\ runs < MaxRuns
  /\ runs' = runs + 1
  /\ UNCHANGED npackets
  /\ IF ~sock_ok
     THEN Return(Engine, -1) /\ entered' = FALSE
     ELSE /\ pc' = IF n = 0 THEN "loop" ELSE "register"
          /\ entered' = (n = 0)
          /\ todo' = n
          /\ ev' = <<>>
          /\ UNCHANGED <<channels, ret, poll_fds, nidx, pending>>

(* one turn of the registration loop: chan_new, chan_send_channel_open *)
Register(alloc_ok, sf) ==
  /\ pc = "register"
  /\ UNCHANGED helpers
  /\ UNCHANGED <<runs, npackets>>
  /\ IF ~alloc_ok
     THEN Return(Engine, -1) /\ UNCHANGED entered
     ELSE LET S1 == [Engine EXCEPT !.chs = Append(@, chan_new(channels))]
              r  == chan_send_channel_open(S1, S1.chs[Len(S1.chs)], sf)
          IN IF r.ret < 0
             THEN Return(r.S, -1) /\ UNCHANGED entered
             ELSE /\ pc' = IF todo = 1 THEN "loop" ELSE "register"
                  /\ entered' = (todo = 1)
                  /\ todo' = todo - 1
                  /\ channels' = r.S.chs
                  /\ pending' = r.S.pending
                  /\ ev' = r.S.ev
                  /\ UNCHANGED <<ret, poll_fds, nidx>>

(* where chan_loop goes on after the socket's POLLIN part *)
AfterRecv == IF "POLLOUT" \in poll_fds[1].revents THEN "flush"
             ELSE IF Len(poll_fds) > 1 THEN "notify" ELSE "loop"

AfterFlush == IF Len(poll_fds) > 1 THEN "notify" ELSE "loop"

(* what poll can report on the set fds: any readiness that was asked for *)
AnyReady(fds) ==
  { rv \in [1..Len(fds) -> SUBSET {"POLLIN", "POLLHUP", "POLLOUT"}] :
      /\ \A k \in 1..Len(fds) : rv[k] \subseteq fds[k].events
      /\ \E k \in 1..Len(fds) : rv[k] # {} }

(* poll reports readiness on one entry of the set *)
OneReady(fds) ==
  UNION { { [k \in 1..Len(fds) |-> IF k = m THEN e ELSE {}] :
              e \in (SUBSET fds[m].events) \ {{}} } :
          m \in 1..Len(fds) }

(* top of an iteration of chan_loop: sweep, exit test, poll; poll reports *)
(* readiness on one entry when one_only, on any entries otherwise        *)
LoopTopWith(one_only) ==
  /\ pc = "loop"
  /\ UNCHANGED helpers
  /\ UNCHANGED <<runs, npackets>>
  /\ LET S1 == [Engine EXCEPT !.chs = chan_remove_closed_channels(@)]
         fds == chan_loop_poll_fds(S1.chs, pending)
     IN IF Len(S1.chs) = 0
        THEN ReturnAfterLoop(S1, 0) /\ UNCHANGED entered
        ELSE \/ \* poll fails with EINTR: continue
                /\ Goto(Input(S1, "poll_EINTR", <<>>), "loop")
                /\ UNCHANGED <<todo, poll_fds, nidx>>
             \/ \* poll fails otherwise
                /\ ReturnAfterLoop(Input(S1, "poll_error", <<>>), -1)
                /\ UNCHANGED entered
             \/ \* poll reports readiness
                \E rv \in (IF one_only THEN OneReady(fds) ELSE AnyReady(fds)) :
                  /\ poll_fds' = [k \in 1..Len(fds) |-> [fds[k] EXCEPT !.revents = rv[k]]]
                  /\ nidx' = 1
                  /\ Goto(S1, IF "POLLIN" \in rv[1] THEN "recv"
                              ELSE IF "POLLOUT" \in rv[1] THEN "flush"
                              ELSE "notify")
                  /\ UNCHANGED todo

LoopTop == LoopTopWith(FALSE)

(* one turn of chan_process_packets: ssh_conn_recv_packet and dispatch *)
RecvWouldBlock ==
  /\ pc = "recv"
  /\ UNCHANGED helpers
  /\ UNCHANGED <<runs, npackets>>
  /\ Goto(Input(Engine, "recv_EWOULDBLOCK", <<>>), AfterRecv)
  /\ IF AfterRecv = "loop" THEN poll_fds' = <<>> /\ nidx' = 0
     ELSE UNCHANGED <<poll_fds, nidx>>
  /\ UNCHANGED todo

RecvError ==
  /\ pc = "recv"
  /\ UNCHANGED helpers
  /\ UNCHANGED <<runs, npackets>>
  /\ ReturnAfterLoop(Input(Engine, "recv_error", <<>>), -1) /\ UNCHANGED entered

RecvPacketWith(P, H) ==
  /\ pc = "recv"
  /\ UNCHANGED helpers
  /\ npackets < MaxPackets
  /\ npackets' = npackets + 1
  /\ UNCHANGED runs
  /\ \E p \in P :
       \E hb \in HostBehavioursFor(p, H), sf \in SendFailuresFor(p) :
         LET r == chan_process_packet(Input(Engine, "recv_packet", p),
                                      ssh_buf_reader_new(p), hb, sf)
         IN IF r.ret < 0
            THEN ReturnAfterLoop(r.S, -1) /\ UNCHANGED entered
            ELSE Goto(r.S, "recv") /\ UNCHANGED <<todo, poll_fds, nidx>>

RecvPacket == RecvPacketWith(InPackets, HostBehaviours)

(* ssh_conn_send_flush where EWOULDBLOCK is taken for a failure *)
Flush_EWOULDBLOCK_fatal ==
  /\ pc = "flush"
  /\ UNCHANGED helpers
  /\ UNCHANGED <<runs, npackets>>
  /\ \E e \in {"flush_EWOULDBLOCK", "flush_error"} :
       ReturnAfterLoop(Input(Engine, e, <<>>), -1) /\ UNCHANGED entered

(* ssh_conn_send_flush on POLLOUT *)
Flush ==
  /\ pc = "flush"
  /\ UNCHANGED helpers
  /\ UNCHANGED <<runs, npackets>>
  /\ \/ \E done \in BOOLEAN :   \* flushed, or EWOULDBLOCK
          /\ Goto(IF done THEN [Engine EXCEPT !.pending = FALSE]
                  ELSE Input(Engine, "flush_EWOULDBLOCK", <<>>), AfterFlush)
          /\ IF AfterFlush = "loop" THEN poll_fds' = <<>> /\ nidx' = 0
             ELSE UNCHANGED <<poll_fds, nidx>>
          /\ UNCHANGED todo
     \/ ReturnAfterLoop(Input(Engine, "flush_error", <<>>), -1) /\ UNCHANGED entered

(* one turn of the dispatch loop: chan_notify_channels_watch_fds *)
Watchers(poll_fd) ==
  { i \in 1..Len(channels) :
      /\ poll_fd.revents # {}
      /\ \E j \in 1..Len(channels[i].watch_fds) :
           channels[i].watch_fds[j].fd = poll_fd.fd }

NotifyFdWith(H) ==
  /\ pc = "notify"
  /\ UNCHANGED helpers
  /\ nidx < Len(poll_fds)
  /\ UNCHANGED <<runs, npackets>>
  /\ \E hbs \in [Watchers(poll_fds[nidx + 1]) -> H] :
       LET S1 == chan_notify_channels_watch_fds(Engine, poll_fds[nidx + 1], hbs)
       IN IF nidx + 1 < Len(poll_fds)
          THEN Goto(S1, "notify") /\ nidx' = nidx + 1 /\ UNCHANGED <<todo, poll_fds>>
          ELSE Goto(S1, "loop") /\ nidx' = 0 /\ poll_fds' = <<>> /\ UNCHANGED todo

NotifyFd == NotifyFdWith(HostBehaviours)

Next ==
  \/ \E n \in 0..MaxConfigs, sock_ok \in BOOLEAN : RunStart(n, sock_ok)
  \/ \E alloc_ok \in BOOLEAN, sf \in 0..1 : Register(alloc_ok, sf)
  \/ LoopTop
  \/ RecvWouldBlock
  \/ RecvError
  \/ RecvPacket
  \/ Flush
  \/ NotifyFd

Spec == Init /\ [][Next]_vars

(* one session channel whose host watches two fds: the peer sends only   *)
(* what opens the session and data, and sending never fails             *)
SessionPackets ==
  { p \in WellFormedPackets :
      p[1] \in {SSH_MSG_CHANNEL_OPEN_CONFIRMATION, SSH_MSG_CHANNEL_SUCCESS,
                SSH_MSG_CHANNEL_DATA} }

WatchNext ==
  \/ \E sock_ok \in BOOLEAN : RunStart(1, sock_ok)
  \/ \E alloc_ok \in BOOLEAN : Register(alloc_ok, 0)
  \/ LoopTop
  \/ RecvWouldBlock
  \/ RecvError
  \/ RecvPacketWith(SessionPackets, HostBehaviours2)
  \/ Flush
  \/ NotifyFdWith(HostBehaviours2)

WatchSpec == Init /\ [][WatchNext]_vars

(* at most one channel per call, with a host that watches no fd: the    *)
(* peer sends every packet, sending can fail, callbacks can close and   *)
(* can fail                                                            *)
HostBehaviours0 == [watch : {NoWatch}, close : BOOLEAN, ret : {0, -1}]

SessionNext ==
  \/ \E n \in 0..1, sock_ok \in BOOLEAN : RunStart(n, sock_ok)
  \/ \E alloc_ok \in BOOLEAN, sf \in 0..1 : Register(alloc_ok, sf)
  \/ LoopTop
  \/ RecvWouldBlock
  \/ RecvError
  \/ RecvPacketWith(InPackets, HostBehaviours0)
  \/ Flush

SessionSpec == Init /\ [][SessionNext]_vars

(* one session channel with a quiet host whose peer sends bulk data:    *)
(* packets of half the advertised window, and of a byte more than it   *)
BulkSizes == {1, LOCAL_WINDOW_SIZE \div 2, LOCAL_WINDOW_SIZE + 1}

BulkPackets ==
  { <<SSH_MSG_CHANNEL_OPEN_CONFIRMATION>> \o U32(0) \o U32(7) \o U32(131072)
      \o U32(32768),
    <<SSH_MSG_CHANNEL_SUCCESS>> \o U32(0) }
  \cup { <<SSH_MSG_CHANNEL_DATA>> \o U32(0)
           \o ssh_buf_write_data(<<>>, [k \in 1..n |-> 104]) : n \in BulkSizes }

BulkNext ==
  \/ \E sock_ok \in BOOLEAN : RunStart(1, sock_ok)
  \/ \E alloc_ok \in BOOLEAN : Register(alloc_ok, 0)
  \/ LoopTop
  \/ RecvWouldBlock
  \/ RecvError
  \/ RecvPacketWith(BulkPackets, {Quiet})
  \/ Flush

BulkSpec == Init /\ [][BulkNext]_vars

(* ssh_chan_watch_fd on its own: the host calls it on a channel whose   *)
(* watch set holds n entries already                                   *)
FdFlags == {"READ", "WRITE", "CLOSE"}

OtherFds == <<"w1", "w2", "w3", "w4", "w5", "w6", "w7", "w8">>

WatchedBefore(n) ==
  [k \in 1..n |-> [fd |-> OtherFds[k],
                   events |-> IF k = 1 THEN {"POLLIN", "POLLHUP"} ELSE {"POLLOUT"},
                   revents |-> {}]]

WatchInit ==
  /\ pc = "watch"
  /\ \E n \in {0, MAX_POLL_FDS - 1, MAX_POLL_FDS} :
       channels = << [chan_new(<<>>) EXCEPT !.watch_fds = WatchedBefore(n)] >>
  /\ todo = 0
  /\ ret = 0
  /\ entered = FALSE
  /\ poll_fds = <<>>
  /\ nidx = 0
  /\ pending = FALSE
  /\ runs = 0
  /\ npackets = 0
  /\ ev = <<>>
  /\ wbuf = ssh_buf_new
  /\ reader = ssh_buf_reader_new(<<>>)
  /\ written = <<>>

WatchFd(fd, enable_fd_flags, disable_fd_flags) ==
  /\ pc = "watch"
  /\ UNCHANGED helpers
  /\ LET r == ssh_chan_watch_fd(channels[1], fd, enable_fd_flags, disable_fd_flags)
     IN /\ channels' = <<r.chan>>
        /\ ret' = r.ret
        /\ ev' = << Event("watch_fd", 1, channels[1],
                          <<fd, enable_fd_flags, disable_fd_flags>>) >>
  /\ UNCHANGED <<pc, todo, entered, poll_fds, nidx, pending, runs, npackets>>

WatchFdNext ==
  \E fd \in {"fd0", "w1"}, en \in SUBSET FdFlags, dis \in SUBSET FdFlags :
    WatchFd(fd, en, dis)

WatchFdSpec == WatchInit /\ [][WatchFdNext]_vars

(* chan_loop with channels that watch many fds: the call stands at the   *)
(* top of an iteration with one or two OPEN channels, the first watching *)
(* n1 fds for reading, the second n2 fds, from OtherFds[f2] on, for      *)
(* writing                                                               *)
WatchedFrom(first, n, events) ==
  [k \in 1..n |-> [fd |-> OtherFds[first + k - 1], events |-> events,
                   revents |-> {}]]

OpenChannel(chs, watch_fds) ==
  [chan_new(chs) EXCEPT !.status = "OPEN", !.confirmed = TRUE, !.opened = TRUE,
                        !.watch_fds = watch_fds]

PollInit ==
  /\ pc = "loop"
  /\ \E n1 \in {1, MAX_POLL_FDS \div 2, MAX_POLL_FDS} :
       LET c1 == OpenChannel(<<>>, WatchedFrom(1, n1, {"POLLIN", "POLLHUP"}))
       IN \/ channels = <<c1>>
          \/ \E f2 \in {1, MAX_POLL_FDS \div 2 + 1} :
               channels = << c1, OpenChannel(<<c1>>,
                                   WatchedFrom(f2, MAX_POLL_FDS \div 2, {"POLLOUT"})) >>
  /\ todo = 0
  /\ ret = 0
  /\ entered = TRUE
  /\ poll_fds = <<>>
  /\ nidx = 0
  /\ pending \in BOOLEAN
  /\ runs = 1
  /\ npackets = 0
  /\ ev = <<>>
  /\ wbuf = ssh_buf_new
  /\ reader = ssh_buf_reader_new(<<>>)
  /\ written = <<>>

(* the host's fd_ready may close its channel *)
HostBehavioursClose == [watch : {NoWatch}, close : BOOLEAN, ret : {0}]

PollNext ==
  \/ LoopTopWith(TRUE)
  \/ RecvWouldBlock
  \/ RecvError
  \/ Flush
  \/ NotifyFdWith(HostBehavioursClose)

PollSpec == PollInit /\ [][PollNext]_vars

(* ------------------------------------------------------------------ *)
(* The reader of packet.c on its own: a reader is made on some input    *)
(* and the read functions are called on it in any order                 *)
(* ------------------------------------------------------------------ *)
ReaderBytes == {0, 1, 127, 255}

ReaderInputs == UNION { [1..n -> ReaderBytes] : n \in 0..MaxRead }

SkipLens == {1, 4, SIZE_MAX}

SeekPositions == {2, MaxRead, MaxRead + 1, SIZE_MAX}

Sentinels == {0, 255}

ReaderInit ==
  /\ pc = "reader"
  /\ channels = <<>>
  /\ todo = 0
  /\ ret = 0
  /\ entered = FALSE
  /\ poll_fds = <<>>
  /\ nidx = 0
  /\ pending = FALSE
  /\ runs = 0
  /\ npackets = 0
  /\ ev = <<>>
  /\ wbuf = ssh_buf_new
  /\ \E data \in ReaderInputs : reader = ssh_buf_reader_new(data)
  /\ written = <<>>

(* the uint32_t at the reader's position is one the model's integers hold *)
U32InRange(rd) ==
  check_advance(rd.pos, 4, rd.len) => rd.data[rd.pos + 1] < 128

(* a read function was called with arg and returned r = [ok, val, rd] *)
ReaderStep(op, arg, r) ==
  /\ pc = "reader"
  /\ reader' = r.rd
  /\ ret' = IF r.ok THEN 0 ELSE -1
  /\ ev' = << Event(op, 0, NoChan, arg), Event("value", 0, NoChan, <<r.val>>) >>
  /\ UNCHANGED <<pc, channels, todo, entered, poll_fds, nidx, pending, runs,
                 npackets, wbuf, written>>

ReadU8 == ReaderStep("read_u8", <<>>, ssh_buf_read_u8(reader))

ReadU32 ==
  /\ U32InRange(reader)
  /\ ReaderStep("read_u32", <<>>, ssh_buf_read_u32(reader))

ReadString ==
  /\ U32InRange(reader)
  /\ ReaderStep("read_string", <<>>, ssh_buf_read_string(reader))

ReadUntil(sentinel) ==
  ReaderStep("read_until", <<sentinel>>, ssh_buf_read_until(reader, sentinel))

ReadSkip(len) == ReaderStep("read_skip", <<len>>, ssh_buf_read_skip(reader, len))

Seek(new_pos) == ReaderStep("seek", <<new_pos>>, ssh_buf_reader_seek(reader, new_pos))

Rewind ==
  ReaderStep("rewind", <<>>,
             [ok |-> TRUE, val |-> 0, rd |-> ssh_buf_reader_rewind(reader)])

ReaderNext ==
  \/ ReadU8
  \/ ReadU32
  \/ ReadString
  \/ \E sentinel \in Sentinels : ReadUntil(sentinel)
  \/ \E len \in SkipLens : ReadSkip(len)
  \/ \E new_pos \in SeekPositions : Seek(new_pos)
  \/ Rewind

ReaderSpec == ReaderInit /\ [][ReaderNext]_vars

(* ------------------------------------------------------------------ *)
(* Writer and reader of packet.c together: values are written to a new  *)
(* buffer, then a reader is made on the buffer and reads them back      *)
(* ------------------------------------------------------------------ *)
CodecU32s == {0, 255, 16909060, SIZE_MAX}

CodecBytes == {0, 255}

CodecStrings == UNION { [1..n -> CodecBytes] : n \in 0..MaxBytes }

CodecInit ==
  /\ pc = "write"
  /\ channels = <<>>
  /\ todo = 0
  /\ ret = 0
  /\ entered = FALSE
  /\ poll_fds = <<>>
  /\ nidx = 0
  /\ pending = FALSE
  /\ runs = 0
  /\ npackets = 0
  /\ ev = <<>>
  /\ wbuf = ssh_buf_new
  /\ reader = ssh_buf_reader_new(<<>>)
  /\ written = <<>>

(* a write function was called with val and returned r = [ret, buf] *)
WriteStep(op, kind, val, r) ==
  /\ pc = "write"
  /\ Len(written) < MaxItems
  /\ wbuf' = r.buf
  /\ ret' = r.ret
  /\ written' = IF r.ret = 0 THEN Append(written, [kind |-> kind, val |-> val])
                ELSE written
  /\ ev' = << Event(op, 0, NoChan, <<val>>) >>
  /\ UNCHANGED <<pc, channels, todo, entered, poll_fds, nidx, pending, runs,
                 npackets, reader>>

WriteU32(val) ==
  WriteStep("write_u32", "u32", val, ssh_buf_write_u32_grow(wbuf, val, TRUE))

WriteData(val) ==
  WriteStep("write_data", "data", val,
            ssh_buf_write_data_grow(wbuf, val, TRUE, TRUE))

(* ssh_buf_reader_new_from_buffer on the buffer written *)
StartRead ==
  /\ pc = "write"
  /\ pc' = "read"
  /\ reader' = ssh_buf_reader_new_from_buffer(wbuf)
  /\ ev' = << Event("reader_new_from_buffer", 0, NoChan, <<>>) >>
  /\ UNCHANGED <<channels, todo, ret, entered, poll_fds, nidx, pending, runs,
                 npackets, wbuf, written>>

(* the next value is read back with the read function of its kind *)
ReadBack ==
  /\ pc = "read"
  /\ written # <<>>
  /\ U32InRange(reader)
  /\ LET r == IF Head(written).kind = "u32" THEN ssh_buf_read_u32(reader)
              ELSE ssh_buf_read_string(reader)
     IN /\ reader' = r.rd
        /\ ret' = IF r.ok THEN 0 ELSE -1
        /\ ev' = << Event(IF Head(written).kind = "u32" THEN "read_u32"
                          ELSE "read_string", 0, NoChan, <<>>),
                    Event("value", 0, NoChan, <<r.val>>) >>
  /\ written' = Tail(written)
  /\ UNCHANGED <<pc, channels, todo, entered, poll_fds, nidx, pending, runs,
                 npackets, wbuf>>

CodecNext ==
  \/ \E val \in CodecU32s : WriteU32(val)
  \/ \E val \in CodecStrings : WriteData(val)
  \/ StartRead
  \/ ReadBack

CodecSpec == CodecInit /\ [][CodecNext]_vars

(* ------------------------------------------------------------------ *)
(* The buffer of packet.c on its own: a buffer is made, new or on some  *)
(* data, and the buffer functions are called on it in any order; the    *)
(* allocations they ask for can fail                                    *)
(* ------------------------------------------------------------------ *)
BufferInitLens == {1, BUFFER_GROW_SIZE - 5}

BufferStrings == { [k \in 1..n |-> 255] : n \in {0, MaxBytes} }

GrowLens == {1, BUFFER_GROW_SIZE + 1, SIZE_MAX - BUFFER_GROW_SIZE, SIZE_MAX}

EnsureSizes == {2, BUFFER_GROW_SIZE + 1, SIZE_MAX}

RemoveOffsets == {0, 1}

RemoveLens == {1, 2, SIZE_MAX}

BufferInit ==
  /\ pc = "buffer"
  /\ channels = <<>>
  /\ todo = 0
  /\ ret = 0
  /\ entered = FALSE
  /\ poll_fds = <<>>
  /\ nidx = 0
  /\ pending = FALSE
  /\ runs = 0
  /\ npackets = 0
  /\ ev = <<>>
  /\ \/ wbuf = ssh_buf_new
     \/ \E n \in BufferInitLens : wbuf = ssh_buf_new_from_data([k \in 1..n |-> 7])
  /\ reader = ssh_buf_reader_new(<<>>)
  /\ written = <<>>

(* a buffer function was called with arg and returned r = [ret, buf] *)
BufferStep(op, arg, r) ==
  /\ pc = "buffer"
  /\ wbuf' = r.buf
  /\ ret' = r.ret
  /\ ev' = << Event(op, 0, NoChan, arg) >>
  /\ UNCHANGED <<pc, channels, todo, entered, poll_fds, nidx, pending, runs,
                 npackets, reader>>

(* a function that changes the bytes of the buffer was called with val *)
BufferChange(op, val, r) ==
  /\ Len(written) < MaxItems
  /\ written' = Append(written, [kind |-> op, val |-> val])
  /\ BufferStep(op, <<val>>, r)

BufWriteU8(val, alloc_ok) ==
  BufferChange("write_u8", val, ssh_buf_write_u8_grow(wbuf, val, alloc_ok))

BufWriteU32(val, alloc_ok) ==
  BufferChange("write_u32", val, ssh_buf_write_u32_grow(wbuf, val, alloc_ok))

BufWriteData(val, alloc_ok, alloc_ok2) ==
  BufferChange("write_data", val,
              ssh_buf_write_data_grow(wbuf, val, alloc_ok, alloc_ok2))

BufWriteCstring(val, alloc_ok, alloc_ok2) ==
  BufferChange("write_cstring", val,
              ssh_buf_write_cstring_grow(wbuf, val, alloc_ok, alloc_ok2))

BufAppendData(val, alloc_ok) ==
  BufferChange("append_data", val, ssh_buf_append_data(wbuf, val, alloc_ok))

BufGrow(add_len, alloc_ok) ==
  /\ BufferStep("grow", <<add_len>>, ssh_buf_grow(wbuf, add_len, alloc_ok))
  /\ UNCHANGED written

BufEnsureSize(new_len, alloc_ok) ==
  /\ BufferStep("ensure_size", <<new_len>>,
                ssh_buf_ensure_size(wbuf, new_len, alloc_ok))
  /\ UNCHANGED written

BufRemoveData(offset, len) ==
  BufferChange("remove_data", <<offset, len>>,
               ssh_buf_remove_data(wbuf, offset, len))

BufClear ==
  /\ BufferStep("clear", <<>>, [ret |-> 0, buf |-> ssh_buf_clear(wbuf)])
  /\ UNCHANGED written

BufferNext ==
  \/ \E alloc_ok \in BOOLEAN : BufWriteU8(9, alloc_ok)
  \/ \E alloc_ok \in BOOLEAN : BufWriteU32(16909060, alloc_ok)
  \/ \E val \in BufferStrings, alloc_ok \in BOOLEAN, alloc_ok2 \in BOOLEAN :
       BufWriteData(val, alloc_ok, alloc_ok2)
  \/ \E val \in BufferStrings, alloc_ok \in BOOLEAN, alloc_ok2 \in BOOLEAN :
       BufWriteCstring(val, alloc_ok, alloc_ok2)
  \/ \E val \in BufferStrings, alloc_ok \in BOOLEAN : BufAppendData(val, alloc_ok)
  \/ \E add_len \in GrowLens, alloc_ok \in BOOLEAN : BufGrow(add_len, alloc_ok)
  \/ \E new_len \in EnsureSizes, alloc_ok \in BOOLEAN :
       BufEnsureSize(new_len, alloc_ok)
  \/ \E offset \in RemoveOffsets, len \in RemoveLens : BufRemoveData(offset, len)
  \/ BufClear

BufferSpec == BufferInit /\ [][BufferNext]_vars

(* the call keeps running: no step of it is postponed forever *)
FairSpec == Spec /\ WF_vars(Next)

(* ------------------------------------------------------------------ *)
(* Properties                                                          *)
(* ------------------------------------------------------------------ *)
CallbackOps == {"open", "open_failed", "closed", "received", "fd_ready"}

InLoop == pc \in {"loop", "recv", "flush", "notify"}

(* C1: no two channels in the connection's channel table have the same  *)
(* local_num, after any sequence of registrations and sweeps.           *)
C1_UniqueLocalNum ==
  \A i, j \in 1..Len(channels) :
    i # j => channels[i].local_num # channels[j].local_num

(* C2: a channel becomes OPEN only from REQUESTED, only in the step that *)
(* processes a CHANNEL_SUCCESS for it (the step that invokes its open    *)
(* callback), and only if its CHANNEL_OPEN_CONFIRMATION was processed    *)
(* before.                                                              *)
C2_OpenOnlyAfterConfirmation ==
  [][ /\ \A k \in 1..Len(ev') :
           ev'[k].op = "open" =>
             /\ channels[ev'[k].idx].status = "REQUESTED"
             /\ channels[ev'[k].idx].confirmed
      /\ \A i \in 1..Len(channels) :
           ( /\ pc = "recv" /\ pc' = "recv"
             /\ channels[i].status # "OPEN"
             /\ channels'[i].status = "OPEN" )
           => \E k \in 1..Len(ev') : ev'[k].op = "open" /\ ev'[k].idx = i
    ]_vars

(* C3: the closed callback is invoked at most once in a channel's life:  *)
(* it is never invoked on a channel on which it was invoked before.      *)
C3_ClosedAtMostOnce ==
  \A k \in 1..Len(ev) : ev[k].op = "closed" => ~ev[k].closed

(* C4: received is invoked only after the channel's open callback and    *)
(* before its closed callback, never on a REQUESTED or CLOSED channel.   *)
C4_ReceivedBetweenOpenAndClosed ==
  \A k \in 1..Len(ev) :
    ev[k].op = "received" =>
      ev[k].opened /\ ~ev[k].closed /\ ev[k].st \notin {"REQUESTED", "CLOSED"}

(* C5: open_failed and open are never both invoked on the same channel.  *)
C5_OpenFailedExcludesOpen ==
  \A i \in 1..Len(channels) : ~(channels[i].opened /\ channels[i].failed)

(* C6: when the processing of a CHANNEL_OPEN_FAILURE (the step that      *)
(* invokes open_failed) finishes, the channel's status is CLOSED.        *)
C6_OpenFailureCloses ==
  \A k \in 1..Len(ev) :
    ev[k].op = "open_failed" =>
      pc = "recv" /\ channels[ev[k].idx].status = "CLOSED"

(* C7: once every channel of the running call has received               *)
(* CHANNEL_OPEN_FAILURE, the event loop terminates and run returns.      *)
AllOpenFailed ==
  InLoop /\ Len(channels) > 0 /\ \A i \in 1..Len(channels) : channels[i].failed

C7_AllFailedTerminates == AllOpenFailed ~> (pc = "returned")

(* C8: after the host calls close() on a channel, whatever its status,   *)
(* the channel's status is CLOSED.                                       *)
C8_CloseLeavesClosed ==
  \A k \in 1..Len(ev) :
    ev[k].op = "host_close" => channels[ev[k].idx].status = "CLOSED"

(* C9: once the host has called close() on an OPEN channel, no callback  *)
(* is invoked on that channel any more.                                  *)
C9_NoCallbackAfterHostClose ==
  \A k \in 1..Len(ev) : ev[k].op \in CallbackOps => ~ev[k].hclosed

(* C10: when run returns after the event loop was entered, the channel   *)
(* table is empty.                                                       *)
C10_TableEmptyAtReturn ==
  (pc = "returned" /\ entered) => Len(channels) = 0

(* ops of the inputs that only resume the poll loop *)
ResumeOps == {"recv_EWOULDBLOCK", "flush_EWOULDBLOCK", "poll_EINTR"}

(* ops of the inputs that make chan_loop fail *)
FailureOps == {"poll_error", "recv_error", "flush_error", "recv_packet"}

(* C11: chan_loop returns success only from an iteration whose sweep left *)
(* the table empty, returns error only on a failed poll, receive, flush   *)
(* or packet handler, and EWOULDBLOCK from receive or flush and EINTR     *)
(* from poll keep the call in the loop with every channel as it was.      *)
C11_ResumeAndReturn ==
  [][ InLoop =>
        /\ (pc' = "returned" /\ ret' = 0) =>
              (pc = "loop" /\ chan_remove_closed_channels(channels) = <<>>)
        /\ (pc' = "returned" /\ ret' = -1) =>
              (ev' # <<>> /\ ev'[1].op \in FailureOps)
        /\ (ev' # <<>> /\ ev'[1].op \in ResumeOps) =>
              /\ pc' \in {"loop", "flush", "notify"}
              /\ channels' = IF pc = "loop"
                             THEN chan_remove_closed_channels(channels)
                             ELSE channels ]_vars

(* C11 witness: a flush that came back with EWOULDBLOCK, the call still  *)
(* in its loop with a channel in the table                               *)
C11_Witness ==
  /\ InLoop /\ Len(channels) > 0
  /\ ev # <<>> /\ ev[1].op = "flush_EWOULDBLOCK"
(* the fd_ready calls of the step on channel i *)
FdReadyCalls(log, i) ==
  { k \in 1..Len(log) : log[k].op = "fd_ready" /\ log[k].idx = i }

(* C12: when chan_loop dispatches one entry of its poll set, a channel    *)
(* that watches the entry's fd gets fd_ready for that fd exactly when     *)
(* poll reported readiness on it, every such channel gets it, and no      *)
(* channel gets it twice, also when the callbacks call watch_fd.          *)
C12_FdReadyIffReady ==
  [][ (pc = "notify" /\ nidx < Len(poll_fds)) =>
        LET poll_fd == poll_fds[nidx + 1] IN
        \A i \in 1..Len(channels) :
          LET watching == \E j \in 1..Len(channels[i].watch_fds) :
                            channels[i].watch_fds[j].fd = poll_fd.fd
              calls == FdReadyCalls(ev', i)
          IN /\ Cardinality(calls) <= 1
             /\ (calls # {}) <=> (watching /\ poll_fd.revents # {})
             /\ \A k \in calls : ev'[k].arg[1] = poll_fd.fd ]_vars
(* C13: a negative return from open or fd_ready closes the channel that   *)
(* returned it, leaves the status of the channels the step did not touch  *)
(* as it was, and the call stays in its loop.                             *)
C13_CallbackErrorClosesChannel ==
  [][ \A k \in 1..Len(ev') :
        (ev'[k].op = "return" /\ ev'[k].arg[1] < 0) =>
          /\ pc' \in {"loop", "recv", "flush", "notify"}
          /\ channels'[ev'[k].idx].status = "CLOSED"
          /\ \A j \in 1..Len(channels) :
               (\A m \in 1..Len(ev') : ev'[m].idx # j) =>
                 channels'[j].status = channels[j].status ]_vars
(* the events a watch set holds for fd: none when fd is absent *)
WatchedEvents(fds, fd) ==
  IF \E k \in 1..Len(fds) : fds[k].fd = fd
  THEN (CHOOSE e \in { fds[k] : k \in 1..Len(fds) } : e.fd = fd).events
  ELSE {}

(* C14: watch_fd(fd, enable, disable) merges the interest flags: an       *)
(* existing fd's interest becomes (interest | enable) & ~disable, an      *)
(* absent fd is added with enable & ~disable; the call fails and leaves   *)
(* the set as it was exactly when the set is full, fd is absent and       *)
(* enable is non-zero; afterwards no entry has zero interest and no fd    *)
(* is there twice.  Interest is compared through the poll events it       *)
(* stands for.                                                            *)
C14_WatchFdMerge ==
  [][ pc = "watch" =>
        LET old == channels[1].watch_fds
            new == channels'[1].watch_fds
            fd  == ev'[1].arg[1]
            enable  == ev'[1].arg[2]
            disable == ev'[1].arg[3]
            present == \E k \in 1..Len(old) : old[k].fd = fd
            fails == Len(old) = MAX_POLL_FDS /\ ~present /\ enable # {}
        IN /\ (ret' = -1) <=> fails
           /\ fails => new = old
           /\ ~fails =>
                /\ \A k \in 1..Len(old) :
                     old[k].fd # fd => WatchedEvents(new, old[k].fd) = old[k].events
                /\ IF present
                   THEN \E interest \in SUBSET FdFlags :
                          /\ chan_flags_to_pollfd_events(interest) = WatchedEvents(old, fd)
                          /\ WatchedEvents(new, fd) =
                               chan_flags_to_pollfd_events((interest \cup enable) \ disable)
                   ELSE WatchedEvents(new, fd) =
                          chan_flags_to_pollfd_events(enable \ disable)
           /\ \A k \in 1..Len(new) : new[k].events # {}
           /\ \A k, m \in 1..Len(new) : new[k].fd = new[m].fd => k = m ]_vars
(* C14 as amended: the merge is over the poll events the flags stand for  *)
(* (READ and CLOSE both POLLIN|POLLHUP, WRITE POLLOUT): an existing fd's  *)
(* events become (events | enable) & ~disable, an absent fd is added with *)
(* enable & ~disable; the call fails, the set unchanged, exactly when the *)
(* set is full, fd is absent and enable is non-zero; afterwards no entry  *)
(* has zero events and no fd is there twice.                              *)
C14_WatchFdMergeEvents ==
  [][ pc = "watch" =>
        LET old == channels[1].watch_fds
            new == channels'[1].watch_fds
            fd  == ev'[1].arg[1]
            enable_events  == chan_flags_to_pollfd_events(ev'[1].arg[2])
            disable_events == chan_flags_to_pollfd_events(ev'[1].arg[3])
            present == \E k \in 1..Len(old) : old[k].fd = fd
            fails == Len(old) = MAX_POLL_FDS /\ ~present /\ ev'[1].arg[2] # {}
        IN /\ (ret' = -1) <=> fails
           /\ fails => new = old
           /\ ~fails =>
                /\ \A k \in 1..Len(old) :
                     old[k].fd # fd => WatchedEvents(new, old[k].fd) = old[k].events
                /\ WatchedEvents(new, fd) =
                     (WatchedEvents(old, fd) \cup enable_events) \ disable_events
           /\ \A k \in 1..Len(new) : new[k].events # {}
           /\ \A k, m \in 1..Len(new) : new[k].fd = new[m].fd => k = m ]_vars

(* C14 witness: a call that found the set full, fd absent and something  *)
(* to enable, and failed                                                 *)
C14_Witness ==
  /\ pc = "watch" /\ ret = -1
  /\ Len(channels[1].watch_fds) = MAX_POLL_FDS
  /\ ev # <<>> /\ ev[1].op = "watch_fd" /\ ev[1].arg[1] = "fd0"
  /\ ev[1].arg[2] # {}
(* the packets the step handed to ssh_conn_send_packet, in order *)
Sent(log) ==
  LET sends == SelectSeq(log, LAMBDA e : e.op = "send")
  IN [k \in 1..Len(sends) |-> sends[k].arg]

(* the leading fields of a CHANNEL_OPEN as the peer reads them *)
DecodeOpen(bytes) ==
  LET t == ssh_buf_read_u8(ssh_buf_reader_new(bytes))
      n == ssh_buf_read_string(t.rd)
      c == ssh_buf_read_u32(n.rd)
      w == ssh_buf_read_u32(c.rd)
      m == ssh_buf_read_u32(w.rd)
  IN [type |-> t.val, name |-> n.val, num |-> c.val, window |-> w.val,
      max |-> m.val, rest |-> m.rd.len - m.rd.pos]

(* the leading fields of a CHANNEL_REQUEST as the peer reads them *)
DecodeRequest(bytes) ==
  LET t == ssh_buf_read_u8(ssh_buf_reader_new(bytes))
      c == ssh_buf_read_u32(t.rd)
      n == ssh_buf_read_string(c.rd)
      w == ssh_buf_read_u8(n.rd)
  IN [type |-> t.val, num |-> c.val, name |-> n.val, want |-> w.val]

(* the channel (index in the table, 0 if none) a received channel       *)
(* packet is addressed to, and the u32 that follows the recipient      *)
Addressed(chs, bytes) ==
  LET t == ssh_buf_read_u8(ssh_buf_reader_new(bytes))
      n == ssh_buf_read_u32(t.rd)
      a == ssh_buf_read_u32(n.rd)
  IN [idx |-> IF t.ok /\ n.ok THEN chan_get_by_num(chs, n.val) ELSE 0,
      num |-> n.val, arg |-> a.val]

Received(log, type) ==
  log # <<>> /\ log[1].op = "recv_packet" /\ log[1].arg # <<>> /\ log[1].arg[1] = type

RequestedNums(chs) ==
  LET r == SelectSeq(chs, LAMBDA c : c.status = "REQUESTED")
  IN [k \in 1..Len(r) |-> r[k].local_num]

DataPayload(bytes) ==
  LET t == ssh_buf_read_u8(ssh_buf_reader_new(bytes))
      n == ssh_buf_read_u32(t.rd)
  IN ssh_buf_read_string(n.rd).val

(* the step handled a packet of that type and went on receiving *)
Handled(type) == pc = "recv" /\ pc' = "recv" /\ Received(ev', type)

(* C16: processing a CHANNEL_DATA with an n-byte payload addressed to a   *)
(* channel calls received once, with those n bytes, and lowers the        *)
(* channel's local_window by n.                                           *)
C16_DataDeliveredAndCounted ==
  [][ Handled(SSH_MSG_CHANNEL_DATA) =>
        LET i == Addressed(channels, ev'[1].arg).idx
            d == DataPayload(ev'[1].arg)
            calls == { k \in 1..Len(ev') : ev'[k].op = "received" }
        IN /\ Cardinality(calls) = 1
           /\ \A k \in calls : ev'[k].idx = i /\ ev'[k].arg = d
           /\ channels'[i].local_window_size =
                channels[i].local_window_size - Len(d) ]_vars
(* the length of the payload of a received CHANNEL_DATA, from its header *)
DataLength(bytes) ==
  LET t == ssh_buf_read_u8(ssh_buf_reader_new(bytes))
      n == ssh_buf_read_u32(t.rd)
  IN ssh_buf_read_u32(n.rd).val

(* the step's log holds a CHANNEL_WINDOW_ADJUST sent by the engine *)
SentWindowAdjust(log) ==
  \E k \in 1..Len(Sent(log)) :
    Sent(log)[k] # <<>> /\ Sent(log)[k][1] = SSH_MSG_CHANNEL_WINDOW_ADJUST

(* C17: the engine sends a CHANNEL_WINDOW_ADJUST for a channel before the *)
(* data received on it since the last advertisement reaches the window it *)
(* advertised: when two CHANNEL_DATA handled one after the other stay     *)
(* within the window and together fill it, a WINDOW_ADJUST was sent by    *)
(* then.                                                                  *)
C17_WindowReplenished ==
  [][ (pc = "recv" /\ Received(ev, SSH_MSG_CHANNEL_DATA)
         /\ Handled(SSH_MSG_CHANNEL_DATA)) =>
        LET i == Addressed(channels, ev[1].arg).idx
            n == DataLength(ev[1].arg) + DataLength(ev'[1].arg)
        IN (Addressed(channels, ev'[1].arg).idx = i
              /\ n = channels[i].local_window_size) =>
             (SentWindowAdjust(ev) \/ SentWindowAdjust(ev')) ]_vars

(* C18: a CHANNEL_DATA that takes the data received on a channel over its *)
(* local_window is a violation by the peer: run returns error and the     *)
(* data is not delivered.                                                 *)
C18_WindowOverrunFails ==
  [][ (pc = "recv" /\ Received(ev', SSH_MSG_CHANNEL_DATA)
         /\ Addressed(channels, ev'[1].arg).idx # 0
         /\ DataLength(ev'[1].arg) >
              channels[Addressed(channels, ev'[1].arg).idx].local_window_size) =>
        /\ pc' = "returned" /\ ret' = -1
        /\ \A k \in 1..Len(ev') : ev'[k].op # "received" ]_vars
(* C19: processing a CHANNEL_WINDOW_ADJUST with delta d addressed to a    *)
(* channel adds d to the channel's remote_window (saturating at 2^32 - 1, *)
(* which the windows and deltas here stay far below) and changes nothing  *)
(* else about the channel.                                                *)
C19_WindowAdjustAdds ==
  [][ Handled(SSH_MSG_CHANNEL_WINDOW_ADJUST) =>
        LET a == Addressed(channels, ev'[1].arg)
        IN a.idx # 0 =>
             channels'[a.idx] =
               [channels[a.idx] EXCEPT !.remote_window_size = @ + a.arg] ]_vars

(* C20: a CHANNEL_EOF or CHANNEL_CLOSE addressed to an OPEN channel marks *)
(* the channel CLOSED and calls its closed callback (so that the sweep    *)
(* can remove it and the loop can end).                                   *)
C20_PeerCloseCloses ==
  [][ (pc = "recv" /\ (Received(ev', SSH_MSG_CHANNEL_EOF)
                         \/ Received(ev', SSH_MSG_CHANNEL_CLOSE))) =>
        LET a == Addressed(channels, ev'[1].arg)
        IN (a.idx # 0 /\ channels[a.idx].status = "OPEN") =>
             /\ \E k \in 1..Len(ev') : ev'[k].op = "closed" /\ ev'[k].idx = a.idx
             /\ \/ pc' = "returned"
                \/ channels'[a.idx].status = "CLOSED" ]_vars
(* the types of the packets that start with a recipient channel *)
ChannelPacketTypes ==
  { SSH_MSG_CHANNEL_OPEN_CONFIRMATION, SSH_MSG_CHANNEL_OPEN_FAILURE,
    SSH_MSG_CHANNEL_WINDOW_ADJUST, SSH_MSG_CHANNEL_DATA, SSH_MSG_CHANNEL_EOF,
    SSH_MSG_CHANNEL_CLOSE, SSH_MSG_CHANNEL_SUCCESS }

(* a channel packet that cannot be handled: its recipient is cut short or *)
(* names no channel of the table, or a field of its type runs past its    *)
(* end                                                                    *)
BadChannelPacket(chs, bytes) ==
  LET t  == ssh_buf_read_u8(ssh_buf_reader_new(bytes))
      n  == ssh_buf_read_u32(t.rd)
      f1 == ssh_buf_read_u32(n.rd)
      f2 == ssh_buf_read_u32(f1.rd)
      f3 == ssh_buf_read_u32(f2.rd)
  IN \/ ~t.ok \/ ~n.ok
     \/ chan_get_by_num(chs, n.val) = 0
     \/ t.val = SSH_MSG_CHANNEL_OPEN_CONFIRMATION /\ ~(f1.ok /\ f2.ok /\ f3.ok)
     \/ t.val = SSH_MSG_CHANNEL_WINDOW_ADJUST /\ ~f1.ok
     \/ t.val = SSH_MSG_CHANNEL_DATA /\ ~ssh_buf_read_string(n.rd).ok

(* the callbacks of the step that are not the closed callbacks of the     *)
(* closing of all channels when run returns                               *)
HandlerCallbacks(log) ==
  { k \in 1..Len(log) :
      /\ log[k].op \in CallbackOps
      /\ ~(log[k].op = "closed" /\ k > 1 /\ log[k-1].op = "engine_close") }

(* C21: a received channel packet whose recipient matches no channel of   *)
(* the table, or one of whose fields runs past the end of the packet, is  *)
(* fatal: no callback is invoked for it, no further packet is processed   *)
(* and run returns error.                                                 *)
C21_BadChannelPacketFatal ==
  [][ (pc = "recv" /\ ev' # <<>> /\ ev'[1].op = "recv_packet"
         /\ ev'[1].arg # <<>> /\ ev'[1].arg[1] \in ChannelPacketTypes
         /\ BadChannelPacket(channels, ev'[1].arg)) =>
        /\ pc' = "returned" /\ ret' = -1
        /\ HandlerCallbacks(ev') = {} ]_vars
(* C27: CLOSED is terminal: within an iteration no step moves a CLOSED    *)
(* channel back to OPEN or REQUESTED, whatever packet arrives, and the    *)
(* sweep at the top of the next iteration removes every CLOSED channel    *)
(* and no other.                                                          *)
C27_ClosedIsTerminal ==
  [][ /\ (pc \in {"recv", "flush", "notify"} /\ pc' # "returned") =>
           \A i \in 1..Len(channels) :
             channels[i].status = "CLOSED" => channels'[i].status = "CLOSED"
      /\ (pc = "loop" /\ pc' # "returned") =>
           /\ \A i \in 1..Len(channels') : channels'[i].status # "CLOSED"
           /\ Len(channels') =
                Cardinality({ i \in 1..Len(channels) :
                                channels[i].status # "CLOSED" }) ]_vars
(* the want-reply byte of a GLOBAL_REQUEST as the peer wrote it *)
WantReply(bytes) ==
  LET k == ssh_buf_read_skip(ssh_buf_reader_new(bytes), 1)
      n == ssh_buf_read_string(k.rd)
  IN ssh_buf_read_u8(n.rd)

(* C28: a processed GLOBAL_REQUEST makes the engine send exactly one      *)
(* REQUEST_FAILURE when its want-reply byte is non-zero and nothing when  *)
(* it is zero; no channel changes and no callback is invoked; a request   *)
(* that wants no reply never ends the call.                               *)
C28_GlobalRequestReply ==
  [][ /\ Handled(SSH_MSG_GLOBAL_REQUEST) =>
           /\ Sent(ev') = IF WantReply(ev'[1].arg).val # 0
                          THEN << <<SSH_MSG_REQUEST_FAILURE>> >>
                          ELSE <<>>
           /\ channels' = channels
           /\ \A k \in 1..Len(ev') : ev'[k].op \notin CallbackOps
      /\ (pc = "recv" /\ Received(ev', SSH_MSG_GLOBAL_REQUEST)
            /\ WantReply(ev'[1].arg).ok /\ WantReply(ev'[1].arg).val = 0) =>
           pc' = "recv" ]_vars

(* C28 witness: a GLOBAL_REQUEST that wanted a reply was processed with   *)
(* a channel in the table, and the REQUEST_FAILURE went out               *)
C28_Witness ==
  /\ pc = "recv" /\ Received(ev, SSH_MSG_GLOBAL_REQUEST)
  /\ WantReply(ev[1].arg).val # 0
  /\ Sent(ev) = << <<SSH_MSG_REQUEST_FAILURE>> >>
  /\ Len(channels) > 0
(* the events the channels of chs, together, watch fd for *)
Interest(chs, fd) ==
  UNION { WatchedEvents(chs[i].watch_fds, fd) : i \in 1..Len(chs) }

(* C26: the poll set of an iteration has the transport socket as entry 0  *)
(* and, for every fd a channel of the table watches, an entry with the    *)
(* union of the channels' interests in it, however many channels watch    *)
(* up to 8 fds each.                                                      *)
C26_PollSetHoldsEveryWatch ==
  [][ (pc = "loop" /\ poll_fds' # <<>>) =>
        /\ poll_fds'[1].fd = Sock /\ "POLLIN" \in poll_fds'[1].events
        /\ \A i \in 1..Len(channels') :
             \A j \in 1..Len(channels'[i].watch_fds) :
               \E k \in 2..Len(poll_fds') :
                 /\ poll_fds'[k].fd = channels'[i].watch_fds[j].fd
                 /\ poll_fds'[k].events =
                      Interest(channels', channels'[i].watch_fds[j].fd) ]_vars
(* the big-endian u32 in the four bytes of data after offset pos *)
U32At(data, pos) ==
  data[pos + 1] * 16777216 + data[pos + 2] * 65536 + data[pos + 3] * 256
  + data[pos + 4]

(* C23: whatever read, seek or rewind is called on a reader, on whatever  *)
(* input, 0 <= position <= length holds afterwards and the input is the   *)
(* same; a read succeeds exactly when the bytes it needs remain, also for *)
(* lengths so large that position + need wraps around, then advances by   *)
(* what it read, and a read_u8, read_u32 or read_skip that fails leaves   *)
(* the position alone.                                                    *)
C23_ReaderBounds ==
  [][ pc = "reader" =>
        LET op     == ev'[1].op
            remain == reader.len - reader.pos
            moved  == reader'.pos - reader.pos
        IN /\ 0 <= reader'.pos /\ reader'.pos <= reader'.len
           /\ reader'.data = reader.data /\ reader'.len = reader.len
           /\ op = "read_u8" =>
                /\ (ret' = 0) <=> (remain >= 1)
                /\ moved = IF ret' = 0 THEN 1 ELSE 0
           /\ op = "read_u32" =>
                /\ (ret' = 0) <=> (remain >= 4)
                /\ moved = IF ret' = 0 THEN 4 ELSE 0
           /\ op = "read_skip" =>
                /\ (ret' = 0) <=> (ev'[1].arg[1] <= remain)
                /\ moved = IF ret' = 0 THEN ev'[1].arg[1] ELSE 0
           /\ op = "read_string" =>
                /\ (ret' = 0) <=>
                     (remain >= 4
                        /\ U32At(reader.data, reader.pos) <= remain - 4)
                /\ ret' = 0 =>
                     /\ moved = 4 + U32At(reader.data, reader.pos)
                     /\ ev'[2].arg[1] =
                          SubSeq(reader.data, reader.pos + 5, reader'.pos)
           /\ op = "seek" =>
                /\ (ret' = 0) <=> (ev'[1].arg[1] <= reader.len)
                /\ reader'.pos = IF ret' = 0 THEN ev'[1].arg[1] ELSE reader.pos
           /\ op = "read_until" => ret' = 0 /\ moved >= 0
           /\ op = "rewind" => reader'.pos = 0 ]_vars

(* C23 witness: a read_string whose length field is so large that         *)
(* position + length wraps around was refused                             *)
C23_Witness ==
  /\ pc = "reader" /\ ev # <<>> /\ ev[1].op = "read_string" /\ ret = -1
  /\ reader.pos >= 5
  /\ reader.data[reader.pos - 3] < 128
  /\ U32At(reader.data, reader.pos - 4) > SIZE_MAX - reader.pos
(* the bytes the written values take in the buffer *)
RECURSIVE EncodedSize(_)
EncodedSize(items) ==
  IF items = <<>> THEN 0
  ELSE (IF Head(items).kind = "u32" THEN 4 ELSE 4 + Len(Head(items).val))
       + EncodedSize(Tail(items))

(* C22: a u32 written with write_u32 is read back by read_u32 and a byte  *)
(* string written with write_data is read back by read_string as a view   *)
(* equal to it; values written one after the other are read back in the   *)
(* same order, each read advancing by the bytes of its value, and after   *)
(* the last one the reader's position is the number of bytes written.     *)
C22_CodecRoundTrip ==
  [][ /\ pc' = "write" => wbuf'.len = EncodedSize(written')
      /\ (pc = "read" /\ pc' = "read") =>
           /\ ret' = 0
           /\ ev'[2].arg[1] = Head(written).val
           /\ reader'.pos = reader.pos + EncodedSize(<<Head(written)>>)
           /\ written' = <<>> => reader'.pos = wbuf.len ]_vars

(* C22 witness: a u32 and then a string of two bytes were written, both   *)
(* were read back and the reader stands at the end of the buffer          *)
C22_Witness ==
  /\ pc = "read" /\ written = <<>>
  /\ ev # <<>> /\ ev[1].op = "read_string" /\ Len(ev[2].arg[1]) = 2
  /\ reader.pos = 10 /\ wbuf.len = 10
(* the logged calls that write to the buffer *)
WriteOps == {"write_u8", "write_u32", "write_data", "write_cstring", "append_data"}

(* the bytes the logged write call puts into the buffer *)
BytesOf(e) ==
  CASE e.op = "write_u8"  -> 1
    [] e.op = "write_u32" -> 4
    [] e.op \in {"write_data", "write_cstring"} -> 4 + Len(e.arg[1])
    [] e.op = "append_data" -> Len(e.arg[1])

(* C24: a buffer write (write_u8, write_u32, write_data, write_cstring,   *)
(* append_data) that fails because the buffer cannot grow leaves the      *)
(* buffer's length and content as they were, also when write_data fails   *)
(* on the payload after its length prefix was accepted.                   *)
C24_FailedWriteLeavesBuffer ==
  [][ (pc = "buffer" /\ ev'[1].op \in WriteOps /\ ret' = -1) =>
        wbuf'.len = wbuf.len /\ wbuf'.data = wbuf.data ]_vars
(* C25: whatever buffer function is called, length <= capacity holds     *)
(* afterwards and the capacity is not smaller than before; a successful  *)
(* grow(n) leaves room for n more bytes and a successful ensure_size(n)   *)
(* a capacity of n; a write that fits the room left succeeds without      *)
(* changing the capacity, whether or not an allocation could succeed; a   *)
(* grow whose length + n does not fit size_t is reported as failure, and  *)
(* no call makes the capacity wrap around.                                *)
C25_BufferCapacity ==
  [][ pc = "buffer" =>
        LET op   == ev'[1].op
            room == wbuf.cap - wbuf.len
        IN /\ wbuf'.len <= wbuf'.cap
           /\ wbuf'.cap >= wbuf.cap
           /\ (op = "grow" /\ ret' = 0) =>
                wbuf'.cap - wbuf'.len >= ev'[1].arg[1]
           /\ (op = "grow" /\ ev'[1].arg[1] > SIZE_MAX - wbuf.len) =>
                ret' = -1 /\ wbuf' = wbuf
           /\ (op = "ensure_size" /\ ret' = 0) => wbuf'.cap >= ev'[1].arg[1]
           /\ (op \in WriteOps /\ BytesOf(ev'[1]) <= room) =>
                /\ ret' = 0
                /\ wbuf'.cap = wbuf.cap
                /\ wbuf'.len = wbuf.len + BytesOf(ev'[1])
           /\ op \in {"remove_data", "clear"} => wbuf'.cap = wbuf.cap ]_vars

(* C25 witness: a grow by the largest size_t was refused on a buffer that *)
(* holds bytes and had its capacity rounded up before                     *)
C25_Witness ==
  /\ pc = "buffer" /\ ev # <<>> /\ ev[1].op = "grow"
  /\ ev[1].arg[1] = SIZE_MAX /\ ret = -1
  /\ wbuf.len > 0 /\ wbuf.cap > wbuf.len
  /\ wbuf.cap % BUFFER_GROW_SIZE = 0
====
